---------------------------- MODULE Spec2Model ----------------------------
(***************************************************************************)
(* Bulls and Cows with information-theoretic feedback (BullsCowsYL.py).    *)
(*                                                                         *)
(* A string is a sequence of code points ("1" is 49, "a" is 97, the        *)
(* vulgar fraction one half is 189).  A feedback is the pair               *)
(* <<bulls, cows>>.  Python's None is the empty sequence.                  *)
(*                                                                         *)
(* Scaling.  The source enumerates the digits range(10) and scans the      *)
(* first 500 candidates; the model enumerates range(NumSymbols) and scans  *)
(* the first SuggestPrefix candidates, so that the universe has            *)
(* NumSymbols!/(NumSymbols-4)! codes instead of 5040 and the scanned       *)
(* prefix is still shorter than the universe.  The code length 4 is kept.  *)
(* math.log2 on doubles is modelled in fixed point with FracBits fraction  *)
(* bits: a float x is the integer floor(x * 2^FracBits).                   *)
(***************************************************************************)
EXTENDS Integers, Sequences, FiniteSets, TLC

VARIABLES
    secret,                 \* BullsCows.secret
    possible_combinations,  \* BullsCows.possible_combinations (a list)
    guesses,                \* BullsCows.guesses: list of <<guess, bulls, cows>>
    initial_entropy,        \* BullsCows.initial_entropy
    result,                 \* the value the last make_guess call returned
    pc,                     \* play_game: "loop" inside while True, "done" after break
    call                    \* the last direct call of a pure method and its value

vars == <<secret, possible_combinations, guesses, initial_entropy, result, pc, call>>

session == <<secret, possible_combinations, guesses, initial_entropy>>

-----------------------------------------------------------------------------
(* Bounds of the model *)

NumSymbols == 5      \* digits enumerated by generate_all_numbers (source: 10)
SuggestPrefix == 3   \* candidates scanned by suggest_guess (source: 500)
MaxGuesses == 2      \* accepted guesses per session in Spec and SpecPlay
FracBits == 10       \* fraction bits of the fixed-point floats

(* Program constants *)

CodeLen == 4         \* len(guess) != 4, len(set(guess)) != 4, bulls < 4

-----------------------------------------------------------------------------
(* Strings *)

None == << >>

chr(d) == 48 + d

AsciiDigits == 48 .. 57

\* str.isnumeric for code points below 256: the ASCII digits, the
\* superscripts two, three and one, and the fractions 1/4, 1/2 and 3/4.
NumericChars == AsciiDigits \cup {178, 179, 185, 188, 189, 190}

isnumeric(s) == Len(s) > 0 /\ \A i \in 1 .. Len(s) : s[i] \in NumericChars

\* len(set(s))
LenSet(s) == Cardinality({s[i] : i \in 1 .. Len(s)})

RECURSIVE Concat(_)
Concat(ss) == IF ss = << >> THEN << >> ELSE Head(ss) \o Concat(Tail(ss))

-----------------------------------------------------------------------------
(* generate_all_numbers *)

range == [i \in 1 .. NumSymbols |-> i - 1]

generate_all_numbers ==
    Concat([i1 \in 1 .. NumSymbols |->
      Concat([i2 \in 1 .. NumSymbols |->
        IF range[i2] # range[i1]
        THEN Concat([i3 \in 1 .. NumSymbols |->
          IF range[i3] # range[i1] /\ range[i3] # range[i2]
          THEN Concat([i4 \in 1 .. NumSymbols |->
            IF range[i4] # range[i1] /\ range[i4] # range[i2] /\ range[i4] # range[i3]
            THEN << <<chr(range[i1]), chr(range[i2]), chr(range[i3]), chr(range[i4])>> >>
            ELSE << >>])
          ELSE << >>])
        ELSE << >>])])

Universe == generate_all_numbers

UniverseSet == {Universe[i] : i \in 1 .. Len(Universe)}

-----------------------------------------------------------------------------
(* Fixed-point floats *)

RECURSIVE Pow2(_)
Pow2(k) == IF k = 0 THEN 1 ELSE 2 * Pow2(k - 1)

Scale == Pow2(FracBits)

RECURSIVE FloorLog2(_)
FloorLog2(n) == IF n < 2 THEN 0 ELSE 1 + FloorLog2(n \div 2)

\* the fraction bits of log2 of the mantissa x (Scale <= x < 2 * Scale), by
\* repeated squaring
RECURSIVE FracLog2(_, _)
FracLog2(x, k) ==
    IF k = 0 THEN 0
    ELSE LET y == (x * x) \div Scale
         IN  IF y >= 2 * Scale
             THEN Pow2(k - 1) + FracLog2(y \div 2, k - 1)
             ELSE FracLog2(y, k - 1)

Log2Compute(n) ==
    FloorLog2(n) * Scale + FracLog2((n * Scale) \div Pow2(FloorLog2(n)), FracBits)

Log2Table == [n \in 1 .. Len(Universe) |-> Log2Compute(n)]

\* math.log2(n) for an integer 1 <= n <= len(universe)
log2(n) == Log2Table[n]

-----------------------------------------------------------------------------
(* The engine *)

\* zip(guess, target) stops at the shorter of the two
ZipLen(a, b) == IF Len(a) < Len(b) THEN Len(a) ELSE Len(b)

In(c, s) == \E j \in 1 .. Len(s) : s[j] = c

\* get_feedback without the "- bulls"
get_feedback_nosub(g, sec) ==
    LET bulls == Cardinality({i \in 1 .. ZipLen(g, sec) : g[i] = sec[i]})
        cows  == Cardinality({i \in 1 .. Len(g) : In(g[i], sec)})
    IN  <<bulls, cows>>

\* get_feedback returning cows, bulls
get_feedback_swapped(g, sec) ==
    LET bulls == Cardinality({i \in 1 .. ZipLen(g, sec) : g[i] = sec[i]})
        cows  == Cardinality({i \in 1 .. Len(g) : In(g[i], sec)}) - bulls
    IN  <<cows, bulls>>

get_feedback(g, sec) ==
    LET bulls == Cardinality({i \in 1 .. ZipLen(g, sec) : g[i] = sec[i]})
        cows  == Cardinality({i \in 1 .. Len(g) : In(g[i], sec)}) - bulls
    IN  <<bulls, cows>>

\* evaluate_possible_secret without the "- bulls"
evaluate_possible_secret_nosub(g, possible_secret) ==
    LET bulls == Cardinality({i \in 1 .. ZipLen(g, possible_secret) : g[i] = possible_secret[i]})
        cows  == Cardinality({i \in 1 .. Len(g) : In(g[i], possible_secret)})
    IN  <<bulls, cows>>

evaluate_possible_secret(g, possible_secret) ==
    LET bulls == Cardinality({i \in 1 .. ZipLen(g, possible_secret) : g[i] = possible_secret[i]})
        cows  == Cardinality({i \in 1 .. Len(g) : In(g[i], possible_secret)}) - bulls
    IN  <<bulls, cows>>

calculate_entropy(combos) ==
    LET n == Len(combos)
    IN  IF n = 0 THEN 0 ELSE log2(n)

\* Below, x \in {e} in a quantifier or a set constructor binds x to the value
\* of e, as an assignment to a local variable does.

\* the dict feedback_counts, from the list fb of the feedbacks of the
\* possible secrets
FeedbackCounts(fb) ==
    [k \in {fb[i] : i \in 1 .. Len(fb)} |-> Cardinality({i \in 1 .. Len(fb) : fb[i] = k})]

\* the loop over feedback_counts.values(), for the keys still to visit
RECURSIVE ConditionalEntropy(_, _, _)
ConditionalEntropy(feedback_counts, keys, total) ==
    IF keys = {} THEN 0
    ELSE CHOOSE conditional_entropy \in
           {(IF count > 0 THEN (count * log2(count)) \div total ELSE 0)
              + ConditionalEntropy(feedback_counts, keys \ {k}, total) :
                <<k, count>> \in {<<x, feedback_counts[x]>> : x \in {CHOOSE y \in keys : TRUE}}} : TRUE

calculate_mutual_information(combos, g) ==
    LET current_entropy == calculate_entropy(combos) IN
    IF current_entropy = 0 THEN 0
    ELSE current_entropy
         - (CHOOSE conditional_entropy \in
              {ConditionalEntropy(feedback_counts, DOMAIN feedback_counts, Len(combos)) :
                 feedback_counts \in
                   {FeedbackCounts(fb) :
                      fb \in {[i \in 1 .. Len(combos) |->
                                 evaluate_possible_secret(g, combos[i])] \o << >>}}} : TRUE)

\* update_possibilities filtering a fresh universe instead of the running list
update_possibilities_universe(combos, g, bulls, cows) ==
    SelectSeq(generate_all_numbers, LAMBDA possible_secret :
                 evaluate_possible_secret(g, possible_secret) = <<bulls, cows>>)

\* update_possibilities comparing the bulls only
update_possibilities_bulls(combos, g, bulls, cows) ==
    SelectSeq(combos, LAMBDA possible_secret :
                 evaluate_possible_secret(g, possible_secret)[1] = bulls)

update_possibilities(combos, g, bulls, cows) ==
    SelectSeq(combos, LAMBDA possible_secret :
                 evaluate_possible_secret(g, possible_secret) = <<bulls, cows>>)

\* candidates = possible_combinations[:500]
Prefix(combos) == SubSeq(combos, 1, IF Len(combos) < SuggestPrefix THEN Len(combos) ELSE SuggestPrefix)

\* the for loop of suggest_guess with "info >= max_info"
RECURSIVE SuggestLoop_ge(_, _, _, _, _)
SuggestLoop_ge(combos, candidates, i, best_guess, max_info) ==
    IF i > Len(candidates) THEN best_guess
    ELSE CHOOSE best \in
           {IF info >= max_info
            THEN SuggestLoop_ge(combos, candidates, i + 1, candidates[i], info)
            ELSE SuggestLoop_ge(combos, candidates, i + 1, best_guess, max_info) :
              info \in {calculate_mutual_information(combos, candidates[i])}} : TRUE

\* the for loop of suggest_guess from candidate i on, with the best so far
RECURSIVE SuggestLoop(_, _, _, _, _)
SuggestLoop(combos, candidates, i, best_guess, max_info) ==
    IF i > Len(candidates) THEN best_guess
    ELSE CHOOSE best \in
           {IF info > max_info
            THEN SuggestLoop(combos, candidates, i + 1, candidates[i], info)
            ELSE SuggestLoop(combos, candidates, i + 1, best_guess, max_info) :
              info \in {calculate_mutual_information(combos, candidates[i])}} : TRUE

suggest_guess(combos) ==
    IF combos = << >> THEN None
    ELSE SuggestLoop(combos, Prefix(combos), 1, None, -Scale)

-----------------------------------------------------------------------------
(* BullsCows.__init__ and the entry of play_game *)

NoResult == [kind |-> "none"]

NoCall == [op |-> "none"]

Init ==
    /\ possible_combinations = generate_all_numbers
    /\ secret \in UniverseSet              \* random.choice(possible_combinations)
    /\ guesses = << >>
    /\ initial_entropy = calculate_entropy(generate_all_numbers)
    /\ result = NoResult
    /\ pc = "loop"
    /\ call = NoCall

-----------------------------------------------------------------------------
(* BullsCows.make_guess *)

InvalidMessage == "Invalid guess. Please enter 4 unique digits."

\* the negation of the condition of the early return
PassesValidation(g) ==
    ~ (Len(g) # CodeLen \/ LenSet(g) # CodeLen \/ ~ isnumeric(g))

MakeGuessReject(g) ==
    /\ ~ PassesValidation(g)
    /\ result' = [kind |-> "str", value |-> InvalidMessage]
    /\ UNCHANGED session

\* the suggestion computed whatever the bulls
SuggestedGuess_always(bulls, combos) == suggest_guess(combos)

\* suggested_guess = self.suggest_guess() if bulls < 4 else None
SuggestedGuess(bulls, combos) ==
    IF bulls < CodeLen THEN suggest_guess(combos) ELSE None

\* the dict with the mutual information taken after update_possibilities
TurnResult_after(g, bulls, cows, before, after) ==
    [kind |-> "dict",
     bulls |-> bulls,
     cows |-> cows,
     previous_entropy |-> calculate_entropy(before),
     current_entropy |-> calculate_entropy(after),
     mutual_information |-> calculate_mutual_information(after, g),
     remaining_possibilities |-> Len(after),
     suggested_next_guess |-> SuggestedGuess(bulls, after)]

\* the dict make_guess returns: before is the candidate list when the call
\* began, after the list update_possibilities left
TurnResult(g, bulls, cows, before, after) ==
    [kind |-> "dict",
     bulls |-> bulls,
     cows |-> cows,
     previous_entropy |-> calculate_entropy(before),
     current_entropy |-> calculate_entropy(after),
     mutual_information |-> calculate_mutual_information(before, g),
     remaining_possibilities |-> Len(after),
     suggested_next_guess |-> SuggestedGuess(bulls, after)]

MakeGuessAccept(g) ==
    /\ PassesValidation(g)
    /\ \E feedback \in {get_feedback(g, secret)} :
       \E pruned \in {update_possibilities(possible_combinations, g, feedback[1], feedback[2])} :
          /\ guesses' = Append(guesses, <<g, feedback[1], feedback[2]>>)
          /\ possible_combinations' = pruned
          /\ result' = TurnResult(g, feedback[1], feedback[2], possible_combinations, pruned)
    /\ UNCHANGED <<secret, initial_entropy>>

make_guess(g) == MakeGuessReject(g) \/ MakeGuessAccept(g)

-----------------------------------------------------------------------------
(* What a caller types *)

\* "123", "11234", "12a4", "1123" and the empty line
InvalidInputs ==
    { <<49, 50, 51>>, <<49, 49, 50, 51, 52>>, <<49, 50, 97, 52>>, <<49, 49, 50, 51>>, << >> }

\* "12" + the fraction one half + "4": four distinct characters, none a letter
FractionInputs == { <<49, 50, 189, 52>> }

\* "0123"
FixedCodes == { <<48, 49, 50, 51>> }

\* the hint the last turn printed, when there is one
Hint == IF result.kind = "dict" /\ result.suggested_next_guess # None
        THEN {result.suggested_next_guess} ELSE {}

GuessInputs == InvalidInputs \cup FractionInputs \cup FixedCodes \cup {secret} \cup Hint

-----------------------------------------------------------------------------
(* Spec: a caller of the class makes any sequence of make_guess calls, at  *)
(* most MaxGuesses of them accepted                                        *)

Bounded(g) == PassesValidation(g) => Len(guesses) < MaxGuesses

Guess ==
    /\ \E g \in GuessInputs : Bounded(g) /\ make_guess(g)
    /\ UNCHANGED <<pc, call>>

Next == Guess

Spec == Init /\ [][Next]_vars

-----------------------------------------------------------------------------
(* SpecPlay: the loop of play_game (its prints are not modelled) *)

\* if result['bulls'] == 4: break; an error string takes the continue before
PlayBreak(res) == res.kind = "dict" /\ res.bulls = CodeLen

PlayTurn ==
    /\ pc = "loop"
    /\ \E g \in GuessInputs :
          /\ Bounded(g)
          /\ make_guess(g)
          /\ pc' = IF PlayBreak(result') THEN "done" ELSE "loop"
    /\ UNCHANGED call

\* guess == 'quit' or guess == 'exit'
PlayQuit ==
    /\ pc = "loop"
    /\ pc' = "done"
    /\ UNCHANGED <<session, result, call>>

NextPlay == PlayTurn \/ PlayQuit

SpecPlay == Init /\ [][NextPlay]_vars

-----------------------------------------------------------------------------
(* SpecFollow: the player of play_game keeps typing a code that is still   *)
(* in the candidate list (the hint, the first or the last candidate) and   *)
(* never quits; no bound on the number of guesses                          *)

MemberInputs ==
    Hint \cup (IF possible_combinations = << >> THEN {}
               ELSE {possible_combinations[1],
                     possible_combinations[Len(possible_combinations)]})

FollowTurn ==
    /\ pc = "loop"
    /\ \E g \in MemberInputs :
          /\ make_guess(g)
          /\ pc' = IF PlayBreak(result') THEN "done" ELSE "loop"
    /\ UNCHANGED call

NextFollow == FollowTurn

\* play_game waits at input() and processes every line it is given; the
\* player keeps answering the prompt
SpecFollow == Init /\ [][NextFollow]_vars /\ WF_vars(FollowTurn)

-----------------------------------------------------------------------------
(* SpecCompare: evaluate_possible_secret is called on a pair of codes and  *)
(* returns                                                                 *)

Pending == <<-1>>

InitPure ==
    /\ possible_combinations = generate_all_numbers
    /\ secret = generate_all_numbers[1]
    /\ guesses = << >>
    /\ initial_entropy = calculate_entropy(generate_all_numbers)
    /\ result = NoResult
    /\ pc = "loop"

InitCompare ==
    /\ InitPure
    /\ call \in {[op |-> "evaluate_possible_secret", guess |-> g, possible_secret |-> t,
                  returned |-> FALSE, ret |-> Pending] : g \in UniverseSet, t \in UniverseSet}

ReturnCompare ==
    /\ call.op = "evaluate_possible_secret"
    /\ ~ call.returned
    /\ call' = [call EXCEPT !.returned = TRUE,
                            !.ret = evaluate_possible_secret(call.guess, call.possible_secret)]
    /\ UNCHANGED <<session, result, pc>>

NextCompare == ReturnCompare

SpecCompare == InitCompare /\ [][NextCompare]_vars

-----------------------------------------------------------------------------
(* SpecSuggest: suggest_guess is called on a session whose candidate list  *)
(* is the universe, or what one update_possibilities call left of it       *)

Feedbacks == {<<b, c>> \in (0 .. CodeLen) \X (0 .. CodeLen) : b + c <= CodeLen}

CandidateLists ==
    {generate_all_numbers} \cup
    {update_possibilities(generate_all_numbers, g, f[1], f[2]) : g \in UniverseSet, f \in Feedbacks}

InitSuggest ==
    /\ possible_combinations \in CandidateLists
    /\ secret = generate_all_numbers[1]
    /\ guesses = << >>
    /\ initial_entropy = calculate_entropy(generate_all_numbers)
    /\ result = NoResult
    /\ pc = "loop"
    /\ call = [op |-> "suggest_guess", returned |-> FALSE, ret |-> Pending]

ReturnSuggest ==
    /\ call.op = "suggest_guess"
    /\ ~ call.returned
    /\ call' = [call EXCEPT !.returned = TRUE, !.ret = suggest_guess(possible_combinations)]
    /\ UNCHANGED <<session, result, pc>>

NextSuggest == ReturnSuggest

SpecSuggest == InitSuggest /\ [][NextSuggest]_vars

-----------------------------------------------------------------------------
(* Vocabulary of the properties, written from the definitions of the data  *)
(* model and not from the code                                             *)

Elems(seq) == {seq[i] : i \in 1 .. Len(seq)}

\* a Code: exactly 4 decimal digits 0-9, pairwise distinct
IsCode(s) ==
    /\ Len(s) = 4
    /\ \A i \in 1 .. 4 : s[i] \in 48 .. 57
    /\ \A i \in 1 .. 4 : \A j \in 1 .. 4 : i # j => s[i] # s[j]

\* 1 when the i-th symbol of g is the i-th symbol of t
Bull(g, t, i) == IF g[i] = t[i] THEN 1 ELSE 0

\* 1 when the i-th symbol of g occurs in t at another position
Cow(g, t, i) == IF \E j \in (1 .. 4) \ {i} : g[i] = t[j] THEN 1 ELSE 0

\* positions where the two agree
PositionMatches(g, t) == Bull(g, t, 1) + Bull(g, t, 2) + Bull(g, t, 3) + Bull(g, t, 4)

\* symbols of g that occur in t at a different position
Misplaced(g, t) == Cow(g, t, 1) + Cow(g, t, 2) + Cow(g, t, 3) + Cow(g, t, 4)

Compare(g, t) == <<PositionMatches(g, t), Misplaced(g, t)>>

LastGuess(h) == h[Len(h)]

\* a guess was accepted by this step
Accepted == Len(guesses') = Len(guesses) + 1

\* some submitted guess has scored 4 bulls
Won == \E i \in 1 .. Len(guesses) : guesses[i][2] = 4

\* the candidate list that pruning the universe by each triple of h in
\* turn leaves
RECURSIVE ReplayPrune(_)
ReplayPrune(h) ==
    IF h = << >> THEN Universe
    ELSE LET t == LastGuess(h)
         IN  SelectSeq(ReplayPrune(SubSeq(h, 1, Len(h) - 1)),
                       LAMBDA c : Compare(t[1], c) = <<t[2], t[3]>>)

-----------------------------------------------------------------------------
\* C1: after any sequence of make_guess calls the secret is a member of
\* possible_combinations, which is therefore never empty.
C1_SecretSurvival ==
    /\ possible_combinations # << >>
    /\ secret \in Elems(possible_combinations)

C1_Witness ==
    /\ Len(guesses) >= 2
    /\ result.kind = "dict" /\ result.bulls < 4
    /\ Len(possible_combinations) < Len(Universe)
    /\ secret \in Elems(possible_combinations)

\* C2: make_guess accepts a string only if it is a Code (4 characters, each
\* a decimal digit 0-9, pairwise distinct); any other input yields the error
\* string and leaves secret, candidates and history unchanged.
C2_Validation ==
    [][/\ (Accepted \/ guesses' # guesses \/ possible_combinations' # possible_combinations
             \/ secret' # secret)
          => (result'.kind = "dict" /\ Accepted /\ IsCode(LastGuess(guesses')[1]))
       /\ result'.kind = "str"
          => UNCHANGED <<secret, possible_combinations, guesses>>]_vars

\* C3: in play_game's loop an accepted guess scores 4 bulls exactly when it
\* equals the secret; then the feedback is (4,0), the loop ends (Won) and the
\* returned dict carries no suggestion.
C3_WinCondition ==
    [][(pc = "loop" /\ Accepted) =>
         LET t == LastGuess(guesses')
         IN  /\ (t[2] = 4) <=> (t[1] = secret)
             /\ result'.kind = "dict" /\ result'.bulls = t[2] /\ result'.cows = t[3]
             /\ (t[1] = secret) =>
                  /\ result'.bulls = 4 /\ result'.cows = 0
                  /\ pc' = "done"
                  /\ result'.suggested_next_guess = None]_vars

C3_Witness ==
    /\ pc = "done"
    /\ result.kind = "dict" /\ result.bulls = 4 /\ result.cows = 0
    /\ Len(guesses) >= 2
    /\ LastGuess(guesses)[1] = secret

\* C4 as claimed: once a guess has scored 4 bulls, a later make_guess call
\* appends nothing to the history and does not change the candidates.
C4_NoGuessAfterWin ==
    [][Won => (guesses' = guesses /\ possible_combinations' = possible_combinations)]_vars

\* C4 as amended: make_guess keeps no Won state. Once a guess has scored 4
\* bulls the candidate list is exactly [secret] and no later make_guess call
\* changes it; a later call that passes validation is still answered with a
\* dict and appends its triple to the history.
C4_WonKeepsCandidates ==
    [][Won =>
         /\ possible_combinations = <<secret>>
         /\ possible_combinations' = possible_combinations
         /\ \/ guesses' = guesses
            \/ /\ Accepted
               /\ SubSeq(guesses', 1, Len(guesses)) = guesses
               /\ result'.kind = "dict"]_vars

C4_Witness ==
    /\ \E i \in 1 .. Len(guesses) - 1 : guesses[i][2] = 4
    /\ possible_combinations = <<secret>>
    /\ result.kind = "dict"

\* C5: the candidate list is the full universe at creation and every step
\* leaves a subset of what it was, so it never grows and nothing removed
\* comes back.
C5_MonotonicShrink ==
    /\ [](guesses = << >> => possible_combinations = Universe)
    /\ [][/\ Elems(possible_combinations') \subseteq Elems(possible_combinations)
          /\ Len(possible_combinations') <= Len(possible_combinations)]_vars

C5_Witness ==
    /\ Len(guesses) >= 1
    /\ Len(possible_combinations) > 1
    /\ Len(possible_combinations) < Len(Universe)
    /\ Elems(possible_combinations) \subseteq UniverseSet

\* C6: for every pair of Codes, evaluate_possible_secret returns the number
\* of matching positions and the number of guess symbols found in the target
\* at another position; 0 <= bulls, cows <= 4, bulls + cows <= 4, with
\* equality exactly when every guess symbol occurs in the target.
C6_Comparator ==
    (call.op = "evaluate_possible_secret" /\ call.returned) =>
        LET g == call.guess
            t == call.possible_secret
            b == call.ret[1]
            c == call.ret[2]
        IN  /\ IsCode(g) /\ IsCode(t)
            /\ b = PositionMatches(g, t)
            /\ c = Misplaced(g, t)
            /\ 0 <= b /\ b <= 4 /\ 0 <= c /\ c <= 4 /\ b + c <= 4
            /\ (b + c = 4) <=> (\A i \in 1 .. 4 : g[i] \in Elems(t))

C6_Witness ==
    /\ call.op = "evaluate_possible_secret" /\ call.returned
    /\ call.guess # call.possible_secret
    /\ call.ret = <<2, 2>>

\* C7: suggest_guess returns None on an empty candidate list; otherwise it
\* returns one of the first SuggestPrefix candidates whose mutual information
\* against the whole list is maximal over that prefix, the first such one in
\* list order.
C7_Suggestion ==
    (call.op = "suggest_guess" /\ call.returned) =>
        LET combos == possible_combinations
            n == IF Len(combos) < SuggestPrefix THEN Len(combos) ELSE SuggestPrefix
            mi(i) == calculate_mutual_information(combos, combos[i])
        IN  /\ combos = << >> => call.ret = None
            /\ combos # << >> =>
                 \E i \in 1 .. n :
                    /\ call.ret = combos[i]
                    /\ \A j \in 1 .. n : mi(j) <= mi(i)
                    /\ \A j \in 1 .. i - 1 : mi(j) < mi(i)

\* the list is longer than the scanned prefix, and a candidate beyond the
\* prefix would have scored strictly higher than the answer
C7_Witness ==
    /\ call.op = "suggest_guess" /\ call.returned
    /\ Len(possible_combinations) > SuggestPrefix
    /\ call.ret # None
    /\ \E j \in SuggestPrefix + 1 .. Len(possible_combinations) :
          calculate_mutual_information(possible_combinations, possible_combinations[j])
            > calculate_mutual_information(possible_combinations, call.ret)

\* C8: in an accepted turn the dict's mutual information and previous
\* entropy come from the candidate list before this turn's prune, which is
\* what the earlier turns' prunes left of the universe; its current entropy
\* and remaining count come from the list after the prune, and so does the
\* suggestion when bulls < 4.
C8_TurnSequencing ==
    [][Accepted =>
         LET t == LastGuess(guesses')
         IN  /\ possible_combinations = ReplayPrune(guesses)
             /\ result'.kind = "dict"
             /\ result'.previous_entropy = calculate_entropy(possible_combinations)
             /\ result'.mutual_information
                  = calculate_mutual_information(possible_combinations, t[1])
             /\ result'.current_entropy = calculate_entropy(possible_combinations')
             /\ result'.remaining_possibilities = Len(possible_combinations')
             /\ t[2] < 4 =>
                  result'.suggested_next_guess = suggest_guess(possible_combinations')]_vars

C8_Witness ==
    /\ Len(guesses) >= 2
    /\ result.kind = "dict"
    /\ result.bulls < 4
    /\ result.current_entropy < result.previous_entropy
    /\ result.mutual_information > 0
    /\ result.suggested_next_guess \in Elems(possible_combinations)

\* C9: the history holds one triple per accepted guess, in order, and the
\* candidate list holds exactly the universe codes that agree with every
\* triple of the history.
C9_HistoryConsistency ==
    /\ [](Elems(possible_combinations) =
            {c \in UniverseSet :
               \A i \in 1 .. Len(guesses) :
                  Compare(guesses[i][1], c) = <<guesses[i][2], guesses[i][3]>>})
    /\ [][/\ guesses' # guesses =>
               /\ Accepted
               /\ SubSeq(guesses', 1, Len(guesses)) = guesses
               /\ result'.kind = "dict"
               /\ LastGuess(guesses')[2] = result'.bulls
               /\ LastGuess(guesses')[3] = result'.cows
          /\ result'.kind = "str" => guesses' = guesses]_vars

C9_Witness ==
    /\ Len(guesses) >= 2
    /\ guesses[1][1] # guesses[2][1]
    /\ guesses[1][2] < 4 /\ guesses[2][2] < 4
    /\ Len(possible_combinations) >= 2
    /\ \E c \in UniverseSet :
          /\ Compare(guesses[2][1], c) = <<guesses[2][2], guesses[2][3]>>
          /\ c \notin Elems(possible_combinations)

\* C10: when every submitted guess is a member of the candidate list, each
\* non-winning turn removes at least that guess, so the list strictly
\* shrinks; no guess already submitted is suggested again; the history never
\* exceeds the size of the universe; and the game is eventually won.
C10_Progress ==
    /\ [][Accepted =>
            LET t == LastGuess(guesses')
            IN  /\ t[1] \in Elems(possible_combinations)
                /\ t[2] < 4 =>
                     /\ t[1] \notin Elems(possible_combinations')
                     /\ Len(possible_combinations') < Len(possible_combinations)]_vars
    /\ []((result.kind = "dict" /\ result.suggested_next_guess # None) =>
            \A i \in 1 .. Len(guesses) : guesses[i][1] # result.suggested_next_guess)
    /\ [](Len(guesses) <= Len(Universe))
    /\ <>(pc = "done" /\ result.kind = "dict" /\ result.bulls = 4)

C10_Witness ==
    /\ pc = "done"
    /\ result.kind = "dict" /\ result.bulls = 4
    /\ Len(guesses) >= 4
    /\ possible_combinations = <<secret>>

=============================================================================
